---- MODULE Spec2Model ----
(***************************************************************************)
(* ScreenLog: the command line and the continuous runner                   *)
(* (screenlog/main.py), the entry compactor and the per-day log store with *)
(* its startup prune (screenlog/logger.py), the interval floor             *)
(* (screenlog/config.py) and the digest of a day (screenlog/summarize.py). *)
(*                                                                         *)
(* Time is the wall clock in seconds.  A timestamp string produced by      *)
(* isoformat() is the record [date, secs]; fromisoformat() rebuilds the    *)
(* instant from it.  A float confidence is the exact rational [num, den]   *)
(* in lowest terms.  An absent value (Python None) is the record None.     *)
(***************************************************************************)
EXTENDS Integers, Sequences, FiniteSets, TLC

VARIABLES running, pc, clock, current_entry, current_date, now, timestamp,
          captured, to_write, new_entry, i, store, ticks,
          obsHist, commitsSince, lastCall, ioFailures, observedStop, sleepsAfterStop, drainCalls, stopInWait,
          outcome, once, interval, retention_days, exit_code,
          logdir, deleted, file_exists, file_lines, entries, report,
          ocr_results, ocr_out, created, handed, blankSnapshots, observed,
          screenshot, tmp_locked

vars == <<running, pc, clock, current_entry, current_date, now, timestamp,
          captured, to_write, new_entry, i, store, ticks,
          obsHist, commitsSince, lastCall, ioFailures, observedStop, sleepsAfterStop,
          drainCalls, stopInWait,
          outcome, once, interval, retention_days, exit_code,
          logdir, deleted, file_exists, file_lines, entries, report,
          ocr_results, ocr_out, created, handed, blankSnapshots, observed,
          screenshot, tmp_locked>>

\* the command line of main() and the exit status of the process
mainVars == <<once, interval, retention_days, exit_code>>

\* the log directory as found at startup and the digest's working values
toolVars == <<logdir, deleted, file_exists, file_lines, entries, report>>

\* what the recogniser found in the image and what extract_text returns
ocrVars == <<ocr_results, ocr_out>>

\* ghosts: the entries opened by the fold, the entries handed to
\* write_log_entry, the snapshots of those it skipped as blank, and the
\* observations folded
tallyVars == <<created, handed, blankSnapshots, observed>>

(* ------------------------------ bounds --------------------------------- *)
MaxTicks == 3
MaxClock == 86550
StartClock == 86280
IntervalArg == 2
MaxIoFailures == 1

(* --------------------------- program constants ------------------------- *)
DayLen == 86400
MinuteLen == 60
DEFAULT_RETENTION_DAYS == 30
MIN_INTERVAL == 10
MAX_CHARS == 20000

None == [none |-> TRUE]

ClockSteps == {90}
Days == 0 .. 1 + (MaxClock \div DayLen)

(* ------------------------------ rationals ------------------------------ *)
RECURSIVE GCD(_, _)
GCD(a, b) == IF b = 0 THEN a ELSE GCD(b, a % b)

Rat(n, d) == LET g == GCD(n, d) IN [num |-> n \div g, den |-> d \div g]

RatAdd(x, y) == Rat(x.num * y.den + y.num * x.den, x.den * y.den)

RatMulInt(x, k) == Rat(x.num * k, x.den)

RatDivInt(x, k) == Rat(x.num, x.den * k)

(* ------------------------------ timestamps ----------------------------- *)
DateOf(t) == t \div DayLen

ToIso(t) == [date |-> t \div DayLen, secs |-> t % DayLen]

FromIso(s) == s.date * DayLen + s.secs

TruncDiv(a, b) == IF a >= 0 THEN a \div b ELSE -((-a) \div b)

(* -------------------------------- texts -------------------------------- *)
Whitespace == {" ", "\n"}

RECURSIVE LStrip(_)
LStrip(t) == IF t # <<>> /\ Head(t) \in Whitespace THEN LStrip(Tail(t)) ELSE t

RECURSIVE RStrip(_)
RStrip(t) ==
    IF t # <<>> /\ t[Len(t)] \in Whitespace
    THEN RStrip(SubSeq(t, 1, Len(t) - 1))
    ELSE t

Strip(t) == RStrip(LStrip(t))

(* --------------------------- observations ------------------------------ *)
ObsSet ==
    { [app |-> "Editor",  title |-> "doc",  text |-> <<"a">>, conf |-> Rat(4, 5)],
      [app |-> "Browser", title |-> "web",  text |-> <<"a">>, conf |-> Rat(3, 5)],
      [app |-> "Editor",  title |-> "web",  text |-> <<"a">>, conf |-> None],
      [app |-> "Browser", title |-> "doc",  text |-> <<"b">>, conf |-> Rat(3, 5)],
      [app |-> "Editor",  title |-> "doc",  text |-> <<>>,    conf |-> None],
      [app |-> "Browser", title |-> "web",  text |-> <<" ">>, conf |-> Rat(4, 5)] }

RunnerObs ==
    { [app |-> "Editor",  title |-> "doc",  text |-> <<"a">>, conf |-> Rat(4, 5)],
      [app |-> "Browser", title |-> "web",  text |-> <<"b">>, conf |-> Rat(3, 5)],
      [app |-> "Editor",  title |-> "web",  text |-> <<>>,    conf |-> None],
      [app |-> "Browser", title |-> "doc",  text |-> <<" ">>, conf |-> Rat(4, 5)] }

(* ------------------------------ logger.py ------------------------------ *)
create_log_entry_on_the_minute(active_app, window_title, ocr_text, ocr_confidence, ts) ==
    [ start_time         |-> ToIso((ts \div MinuteLen) * MinuteLen),
      end_time           |-> ToIso(ts),
      duration_minutes   |-> 1,
      snapshot_count     |-> 1,
      active_app         |-> active_app,
      window_title       |-> window_title,
      ocr_text           |-> ocr_text,
      avg_ocr_confidence |-> ocr_confidence ]

create_log_entry(active_app, window_title, ocr_text, ocr_confidence, ts) ==
    [ start_time         |-> ToIso(ts),
      end_time           |-> ToIso(ts),
      duration_minutes   |-> 1,
      snapshot_count     |-> 1,
      active_app         |-> active_app,
      window_title       |-> window_title,
      ocr_text           |-> ocr_text,
      avg_ocr_confidence |-> ocr_confidence ]

\* mutant: the old total is weighted by the new count instead of the old one
new_avg_confidence_wrong_weight(entry, new_confidence) ==
    IF new_confidence # None /\ entry.avg_ocr_confidence # None
    THEN RatDivInt(RatAdd(RatMulInt(entry.avg_ocr_confidence,
                                    entry.snapshot_count + 1),
                          new_confidence),
                   entry.snapshot_count + 1)
    ELSE IF new_confidence # None
         THEN new_confidence
         ELSE entry.avg_ocr_confidence

new_avg_confidence(entry, new_confidence) ==
    IF new_confidence # None /\ entry.avg_ocr_confidence # None
    THEN RatDivInt(RatAdd(RatMulInt(entry.avg_ocr_confidence, entry.snapshot_count),
                          new_confidence),
                   entry.snapshot_count + 1)
    ELSE IF new_confidence # None
         THEN new_confidence
         ELSE entry.avg_ocr_confidence

\* mutant: the "+ 1" of the duration is forgotten
update_duration_no_plus_one(entry, new_timestamp) ==
    TruncDiv(new_timestamp - FromIso(entry.start_time), MinuteLen)

update_duration(entry, new_timestamp) ==
    TruncDiv(new_timestamp - FromIso(entry.start_time), MinuteLen) + 1

\* mutant: end_time is not advanced to the new timestamp
update_log_entry_stale_end(entry, new_timestamp, new_confidence) ==
    [ start_time         |-> entry.start_time,
      end_time           |-> entry.end_time,
      duration_minutes   |-> update_duration(entry, new_timestamp),
      snapshot_count     |-> entry.snapshot_count + 1,
      active_app         |-> entry.active_app,
      window_title       |-> entry.window_title,
      ocr_text           |-> entry.ocr_text,
      avg_ocr_confidence |-> new_avg_confidence(entry, new_confidence) ]

update_log_entry(entry, new_timestamp, new_confidence) ==
    [ start_time         |-> entry.start_time,
      end_time           |-> ToIso(new_timestamp),
      duration_minutes   |-> update_duration(entry, new_timestamp),
      snapshot_count     |-> entry.snapshot_count + 1,
      active_app         |-> entry.active_app,
      window_title       |-> entry.window_title,
      ocr_text           |-> entry.ocr_text,
      avg_ocr_confidence |-> new_avg_confidence(entry, new_confidence) ]

\* mutant: only the empty text is recognised, strip() is forgotten
is_blank_empty_only(ocr_text) == ocr_text = <<>>

is_blank(ocr_text) == ocr_text = <<>> \/ Strip(ocr_text) = <<>>

get_log_file_path(t) == DateOf(t)

\* the result of write_log_entry: "skipped" and "written" return True,
\* "failed" returns False
write_result(entry, io_ok) ==
    IF is_blank(entry.ocr_text) THEN "skipped"
    ELSE IF io_ok THEN "written" ELSE "failed"

write_log_entry_appends_anyway(st, entry, t, io_ok) ==
    IF write_result(entry, io_ok) \in {"written", "failed"}
    THEN [st EXCEPT ![get_log_file_path(t)] = Append(@, entry)]
    ELSE st

\* the store after write_log_entry(entry) called at wall-clock time t
write_log_entry(st, entry, t, io_ok) ==
    IF write_result(entry, io_ok) = "written"
    THEN [st EXCEPT ![get_log_file_path(t)] = Append(@, entry)]
    ELSE st

\* open() or write() may raise inside write_log_entry
IoOutcomes == IF ioFailures < MaxIoFailures THEN {TRUE, FALSE} ELSE {TRUE}

\* ghost: the record of one call of write_log_entry
CallRec(entry, t, io_ok, site) ==
    [entry |-> entry, file |-> get_log_file_path(t),
     result |-> write_result(entry, io_ok), site |-> site]

(* ------------------------------ capture.py ----------------------------- *)
delete_screenshot_keeps_file(exists, locked) == exists

\* delete_screenshot(filepath): whether the file is there after the call.
\* os.remove takes it away unless it raises (locked), which is caught.
delete_screenshot(exists, locked) == exists /\ locked

(* ------------------------------- main.py ------------------------------- *)
\* a file of the log directory: ext is its suffix; its stem either has the
\* form %Y-%m-%d, and day is the calendar day it names, or is another name;
\* a locked file is one that unlink() refuses to remove
LogFile(day) == [stem |-> "date", day |-> day, ext |-> "jsonl", locked |-> FALSE]

OtherFile(ext) == [stem |-> "notes", day |-> 0, ext |-> ext, locked |-> FALSE]

Locked(f) == [f EXCEPT !.locked = TRUE]

\* log_file.unlink() raises (caught, printed, not counted)
unlink_raises(f) == f.locked

\* log_dir.glob("*.jsonl")
glob_jsonl(dir) == {f \in dir : f.ext = "jsonl"}

\* datetime.strptime(log_file.stem, "%Y-%m-%d") raises ValueError or gives
\* midnight of the day the stem names
strptime_ok(f) == f.stem = "date"

file_date(f) == f.day * DayLen

\* cutoff_date = datetime.now() - timedelta(days=days)
cutoff_date(t, days) == t - days * DayLen

cleanup_targets_by_day(dir, t, days) ==
    {f \in glob_jsonl(dir) : strptime_ok(f) /\ f.day < DateOf(cutoff_date(t, days))}

\* the files cleanup_old_logs calls unlink() on
cleanup_targets(dir, t, days) ==
    {f \in glob_jsonl(dir) : strptime_ok(f) /\ file_date(f) < cutoff_date(t, days)}

\* cleanup_old_logs(days) run at instant t on directory dir: the directory
\* it leaves and the count it returns
cleanup_old_logs(dir, t, days) ==
    LET gone == {f \in cleanup_targets(dir, t, days) : ~unlink_raises(f)} IN
    [dir |-> dir \ gone, deleted_count |-> Cardinality(gone)]

same_text(previous_entry, ocr_text) ==
    previous_entry # None /\ previous_entry.ocr_text = ocr_text

\* mutant: the previous entry is not handed back when the text changes
fold_lose_previous(previous_entry, obs, ts) ==
    IF same_text(previous_entry, obs.text)
    THEN <<None, update_log_entry(previous_entry, ts, obs.conf)>>
    ELSE <<None,
           create_log_entry(obs.app, obs.title, obs.text, obs.conf, ts)>>

\* process_single_capture, steps 3-5: <<to_write, current_entry>>
fold(previous_entry, obs, ts) ==
    IF same_text(previous_entry, obs.text)
    THEN <<None, update_log_entry(previous_entry, ts, obs.conf)>>
    ELSE <<previous_entry,
           create_log_entry(obs.app, obs.title, obs.text, obs.conf, ts)>>

\* a process that has just started: the stop flag is clear, no entry is
\* open, nothing has been written and no local has a value yet
Fresh ==
    /\ running = TRUE
    /\ current_entry = None
    /\ now = 0
    /\ timestamp = 0
    /\ captured = FALSE
    /\ to_write = None
    /\ new_entry = None
    /\ i = 0
    /\ store = [d \in Days |-> <<>>]
    /\ ticks = 0
    /\ obsHist = <<>>
    /\ commitsSince = 0
    /\ lastCall = None
    /\ ioFailures = 0
    /\ observedStop = FALSE
    /\ sleepsAfterStop = 0
    /\ drainCalls = 0
    /\ stopInWait = FALSE
    /\ outcome = ""
    /\ exit_code = 0
    /\ deleted = 0
    /\ entries = <<>>
    /\ report = None
    /\ ocr_out = None
    /\ created = 0
    /\ handed = 0
    /\ blankSnapshots = 0
    /\ observed = 0
    /\ screenshot = FALSE

\* run_loop is entered with the default retention, an empty log directory
Init ==
    /\ Fresh
    /\ pc = "init"
    /\ clock = StartClock
    /\ current_date = DateOf(StartClock)
    /\ once = FALSE
    /\ interval = IntervalArg
    /\ retention_days = DEFAULT_RETENTION_DAYS
    /\ logdir = {}
    /\ file_exists = FALSE
    /\ file_lines = <<>>
    /\ ocr_results = <<>>
    /\ tmp_locked = FALSE

signal_handler_preempts ==
    /\ running
    /\ pc \notin {"stopped", "exited"}
    /\ running' = FALSE
    /\ pc' = (IF pc \in {"tick_date", "roll_write", "capture", "fold", "commit"}
              THEN "drain" ELSE pc)
    /\ stopInWait' = (pc \in {"wait", "sleep", "err_sleep"})
    /\ UNCHANGED <<clock, current_entry, current_date, now, timestamp,
                   captured, to_write, new_entry, i, store, ticks,
                   obsHist, commitsSince, lastCall, ioFailures, observedStop, sleepsAfterStop, drainCalls>>
    /\ UNCHANGED <<outcome, mainVars, toolVars>>
    /\ UNCHANGED <<ocrVars, tallyVars, screenshot, tmp_locked>>

\* SIGINT / SIGTERM
signal_handler ==
    /\ running
    /\ pc \notin {"stopped", "exited"}
    /\ running' = FALSE
    /\ stopInWait' = (pc \in {"wait", "sleep", "err_sleep"})
    /\ UNCHANGED <<pc, clock, current_entry, current_date, now, timestamp,
                   captured, to_write, new_entry, i, store, ticks,
                   obsHist, commitsSince, lastCall, ioFailures, observedStop, sleepsAfterStop, drainCalls>>
    /\ UNCHANGED <<outcome, mainVars, toolVars>>
    /\ UNCHANGED <<ocrVars, tallyVars, screenshot, tmp_locked>>

\* the wall clock advances while the runner works or sleeps
Elapse ==
    /\ pc \notin {"stopped", "exited"}
    /\ \E d \in ClockSteps :
          /\ clock + d <= MaxClock
          /\ clock' = clock + d
    /\ UNCHANGED <<running, pc, current_entry, current_date, now, timestamp,
                   captured, to_write, new_entry, i, store, ticks,
                   obsHist, commitsSince, lastCall, ioFailures, observedStop, sleepsAfterStop, drainCalls, stopInWait>>
    /\ UNCHANGED <<outcome, mainVars, toolVars>>
    /\ UNCHANGED <<ocrVars, tallyVars, screenshot, tmp_locked>>

RunLoopStart ==
    /\ pc = "init"
    /\ LET r == cleanup_old_logs(logdir, clock, retention_days) IN
          /\ logdir' = r.dir
          /\ deleted' = r.deleted_count
    /\ current_entry' = None
    /\ current_date' = DateOf(clock)
    /\ pc' = "loop"
    /\ UNCHANGED <<running, clock, now, timestamp, captured, to_write,
                   new_entry, i, store, ticks, obsHist, commitsSince, lastCall, ioFailures,
                   observedStop, sleepsAfterStop, drainCalls, stopInWait>>
    /\ UNCHANGED <<outcome, mainVars, file_exists, file_lines, entries, report>>
    /\ UNCHANGED <<ocrVars, tallyVars, screenshot, tmp_locked>>

\* while running:
LoopCheck(maxTicks) ==
    /\ pc = "loop"
    /\ IF running
       THEN /\ ticks < maxTicks
            /\ ticks' = ticks + 1
            /\ pc' = "tick_date"
            /\ UNCHANGED observedStop
       ELSE /\ pc' = "drain"
            /\ observedStop' = TRUE
            /\ UNCHANGED ticks
    /\ UNCHANGED <<running, clock, current_entry, current_date, now,
                   timestamp, captured, to_write, new_entry, i, store,
                   obsHist, commitsSince, lastCall, ioFailures, sleepsAfterStop, drainCalls, stopInWait>>
    /\ UNCHANGED <<outcome, mainVars, toolVars>>
    /\ UNCHANGED <<ocrVars, tallyVars, screenshot, tmp_locked>>

\* now = datetime.now(); if now.date() != current_date: ...
CheckDate ==
    /\ pc = "tick_date"
    /\ now' = clock
    /\ IF DateOf(clock) # current_date
       THEN IF current_entry # None
            THEN /\ pc' = "roll_write"
                 /\ UNCHANGED <<current_entry, current_date>>
            ELSE /\ current_entry' = None
                 /\ current_date' = DateOf(clock)
                 /\ pc' = "capture"
       ELSE /\ pc' = "capture"
            /\ UNCHANGED <<current_entry, current_date>>
    /\ UNCHANGED <<running, clock, timestamp, captured, to_write, new_entry,
                   i, store, ticks, obsHist, commitsSince, lastCall, ioFailures,
                   observedStop, sleepsAfterStop, drainCalls, stopInWait>>
    /\ UNCHANGED <<outcome, mainVars, toolVars>>
    /\ UNCHANGED <<ocrVars, tallyVars, screenshot, tmp_locked>>

RollWrite_keeps_open_entry ==
    /\ pc = "roll_write"
    /\ \E io_ok \in IoOutcomes :
          /\ store' = write_log_entry(store, current_entry, clock, io_ok)
          /\ lastCall' = CallRec(current_entry, clock, io_ok, "rollover")
          /\ ioFailures' = ioFailures + (IF io_ok THEN 0 ELSE 1)
          /\ handed' = handed + 1
          /\ blankSnapshots' = blankSnapshots +
                (IF write_result(current_entry, io_ok) = "skipped"
                 THEN current_entry.snapshot_count ELSE 0)
    /\ current_entry' = current_entry
    /\ current_date' = DateOf(now)
    /\ obsHist' = <<>>
    /\ commitsSince' = 0
    /\ pc' = "capture"
    /\ UNCHANGED <<running, clock, now, timestamp, captured, to_write,
                   new_entry, i, ticks, observedStop, sleepsAfterStop, drainCalls, stopInWait>>
    /\ UNCHANGED <<outcome, mainVars, toolVars>>
    /\ UNCHANGED <<ocrVars, created, observed, screenshot, tmp_locked>>

\* write_log_entry(current_entry); current_entry = None; current_date = now.date()
RollWrite ==
    /\ pc = "roll_write"
    /\ \E io_ok \in IoOutcomes :
          /\ store' = write_log_entry(store, current_entry, clock, io_ok)
          /\ lastCall' = CallRec(current_entry, clock, io_ok, "rollover")
          /\ ioFailures' = ioFailures + (IF io_ok THEN 0 ELSE 1)
          /\ handed' = handed + 1
          /\ blankSnapshots' = blankSnapshots +
                (IF write_result(current_entry, io_ok) = "skipped"
                 THEN current_entry.snapshot_count ELSE 0)
    /\ current_entry' = None
    /\ current_date' = DateOf(now)
    /\ obsHist' = <<>>
    /\ commitsSince' = 0
    /\ pc' = "capture"
    /\ UNCHANGED <<running, clock, now, timestamp, captured, to_write,
                   new_entry, i, ticks, observedStop, sleepsAfterStop, drainCalls, stopInWait>>
    /\ UNCHANGED <<outcome, mainVars, toolVars>>
    /\ UNCHANGED <<ocrVars, created, observed, screenshot, tmp_locked>>

\* timestamp = datetime.now(); take_screenshot(...) returns a path
CaptureOk ==
    /\ pc = "capture"
    /\ timestamp' = clock
    /\ captured' = TRUE
    /\ pc' = "fold"
    /\ UNCHANGED <<running, clock, current_entry, current_date, now, to_write,
                   new_entry, i, store, ticks, obsHist, commitsSince, lastCall,
                   ioFailures, observedStop, sleepsAfterStop, drainCalls, stopInWait>>
    /\ UNCHANGED <<outcome, mainVars, toolVars>>
    /\ screenshot' = TRUE
    /\ UNCHANGED <<ocrVars, tallyVars, tmp_locked>>

CaptureFailed_drops_entry ==
    /\ pc = "capture"
    /\ timestamp' = clock
    /\ captured' = FALSE
    /\ to_write' = None
    /\ new_entry' = None
    /\ pc' = "commit"
    /\ UNCHANGED <<running, clock, current_entry, current_date, now, i, store,
                   ticks, obsHist, commitsSince, lastCall, ioFailures,
                   observedStop, sleepsAfterStop, drainCalls, stopInWait>>
    /\ outcome' = "capture_failed"
    /\ UNCHANGED <<mainVars, toolVars>>
    /\ UNCHANGED <<ocrVars, tallyVars, screenshot, tmp_locked>>

\* take_screenshot(...) returns None: return (None, previous_entry)
CaptureFailed ==
    /\ pc = "capture"
    /\ timestamp' = clock
    /\ captured' = FALSE
    /\ to_write' = None
    /\ new_entry' = current_entry
    /\ pc' = "commit"
    /\ UNCHANGED <<running, clock, current_entry, current_date, now, i, store,
                   ticks, obsHist, commitsSince, lastCall, ioFailures,
                   observedStop, sleepsAfterStop, drainCalls, stopInWait>>
    /\ outcome' = "capture_failed"
    /\ UNCHANGED <<mainVars, toolVars>>
    /\ UNCHANGED <<ocrVars, tallyVars, screenshot, tmp_locked>>

\* take_screenshot(...) raises before its own try block (get_tmp_dir):
\* the exception reaches the handler of run_loop
CaptureRaised ==
    /\ pc = "capture"
    /\ ~once
    /\ timestamp' = 0
    /\ now' = 0
    /\ captured' = FALSE
    /\ i' = 0
    /\ pc' = "err_sleep"
    /\ UNCHANGED <<running, clock, current_entry, current_date, to_write,
                   new_entry, store, ticks, obsHist, commitsSince, lastCall,
                   ioFailures, observedStop, sleepsAfterStop, drainCalls, stopInWait>>
    /\ UNCHANGED <<outcome, mainVars, toolVars>>
    /\ UNCHANGED <<ocrVars, tallyVars, screenshot, tmp_locked>>

Fold_keyed_by_app(O) ==
    /\ pc = "fold"
    /\ \E obs \in O :
          LET r == IF current_entry # None /\ current_entry.active_app # obs.app
                   THEN <<current_entry,
                          create_log_entry(obs.app, obs.title, obs.text,
                                           obs.conf, timestamp)>>
                   ELSE fold(current_entry, obs, timestamp) IN
             /\ to_write' = r[1]
             /\ new_entry' = r[2]
             /\ obsHist' = Append(obsHist, [ts |-> timestamp, app |-> obs.app,
                                            title |-> obs.title,
                                            text |-> obs.text, conf |-> obs.conf])
             /\ commitsSince' = commitsSince + (IF r[1] # None THEN 1 ELSE 0)
             /\ created' = created + (IF r[1] = None /\ current_entry # None
                                      THEN 0 ELSE 1)
             /\ observed' = observed + 1
    /\ pc' = "commit"
    /\ UNCHANGED <<running, clock, current_entry, current_date, now,
                   timestamp, captured, i, store, ticks, lastCall, ioFailures, observedStop,
                   sleepsAfterStop, drainCalls, stopInWait>>
    /\ outcome' = "folded"
    /\ UNCHANGED <<mainVars, toolVars>>
    /\ screenshot' = delete_screenshot(screenshot, tmp_locked)
    /\ UNCHANGED <<ocrVars, handed, blankSnapshots, tmp_locked>>

\* window info, OCR, compare with the previous entry
Fold(O) ==
    /\ pc = "fold"
    /\ \E obs \in O :
          LET r == fold(current_entry, obs, timestamp) IN
             /\ to_write' = r[1]
             /\ new_entry' = r[2]
             /\ obsHist' = Append(obsHist, [ts |-> timestamp, app |-> obs.app,
                                            title |-> obs.title,
                                            text |-> obs.text, conf |-> obs.conf])
             /\ commitsSince' = commitsSince + (IF r[1] # None THEN 1 ELSE 0)
             /\ created' = created + (IF r[1] = None /\ current_entry # None
                                      THEN 0 ELSE 1)
             /\ observed' = observed + 1
    /\ pc' = "commit"
    /\ UNCHANGED <<running, clock, current_entry, current_date, now,
                   timestamp, captured, i, store, ticks, lastCall, ioFailures, observedStop,
                   sleepsAfterStop, drainCalls, stopInWait>>
    /\ outcome' = "folded"
    /\ UNCHANGED <<mainVars, toolVars>>
    /\ screenshot' = delete_screenshot(screenshot, tmp_locked)
    /\ UNCHANGED <<ocrVars, handed, blankSnapshots, tmp_locked>>

FoldRaised_drops_entry ==
    /\ pc = "fold"
    /\ to_write' = None
    /\ new_entry' = None
    /\ outcome' = "fold_raised"
    /\ pc' = "commit"
    /\ UNCHANGED <<running, clock, current_entry, current_date, now,
                   timestamp, captured, i, store, ticks, obsHist, commitsSince,
                   lastCall, ioFailures, observedStop, sleepsAfterStop,
                   drainCalls, stopInWait>>
    /\ UNCHANGED <<mainVars, toolVars>>
    /\ screenshot' = delete_screenshot(screenshot, tmp_locked)
    /\ UNCHANGED <<ocrVars, tallyVars, tmp_locked>>

\* an exception inside the try block of process_single_capture:
\* except Exception: return (None, previous_entry); finally: delete_screenshot
FoldRaised ==
    /\ pc = "fold"
    /\ to_write' = None
    /\ new_entry' = current_entry
    /\ outcome' = "fold_raised"
    /\ pc' = "commit"
    /\ UNCHANGED <<running, clock, current_entry, current_date, now,
                   timestamp, captured, i, store, ticks, obsHist, commitsSince,
                   lastCall, ioFailures, observedStop, sleepsAfterStop,
                   drainCalls, stopInWait>>
    /\ UNCHANGED <<mainVars, toolVars>>
    /\ screenshot' = delete_screenshot(screenshot, tmp_locked)
    /\ UNCHANGED <<ocrVars, tallyVars, tmp_locked>>

Commit_writes_new_entry ==
    /\ pc = "commit"
    /\ ~once
    /\ IF to_write # None
       THEN \E io_ok \in IoOutcomes :
               /\ store' = write_log_entry(store, new_entry, clock, io_ok)
               /\ lastCall' = CallRec(to_write, clock, io_ok, "change")
               /\ ioFailures' = ioFailures + (IF io_ok THEN 0 ELSE 1)
               /\ handed' = handed + 1
               /\ blankSnapshots' = blankSnapshots +
                     (IF write_result(to_write, io_ok) = "skipped"
                      THEN to_write.snapshot_count ELSE 0)
       ELSE UNCHANGED <<store, lastCall, ioFailures, handed, blankSnapshots>>
    /\ current_entry' = new_entry
    /\ to_write' = None
    /\ new_entry' = None
    /\ now' = 0
    /\ timestamp' = 0
    /\ captured' = FALSE
    /\ i' = 0
    /\ pc' = "wait"
    /\ UNCHANGED <<running, clock, current_date, ticks, obsHist, commitsSince,
                   observedStop, sleepsAfterStop, drainCalls, stopInWait>>
    /\ outcome' = ""
    /\ UNCHANGED <<mainVars, toolVars>>
    /\ UNCHANGED <<ocrVars, created, observed, screenshot, tmp_locked>>

\* if to_write is not None: write_log_entry(to_write); current_entry = new_entry
\* (the locals of the finished tick are dead until the next tick assigns
\* them: they are cleared here)
Commit ==
    /\ pc = "commit"
    /\ ~once
    /\ IF to_write # None
       THEN \E io_ok \in IoOutcomes :
               /\ store' = write_log_entry(store, to_write, clock, io_ok)
               /\ lastCall' = CallRec(to_write, clock, io_ok, "change")
               /\ ioFailures' = ioFailures + (IF io_ok THEN 0 ELSE 1)
               /\ handed' = handed + 1
               /\ blankSnapshots' = blankSnapshots +
                     (IF write_result(to_write, io_ok) = "skipped"
                      THEN to_write.snapshot_count ELSE 0)
       ELSE UNCHANGED <<store, lastCall, ioFailures, handed, blankSnapshots>>
    /\ current_entry' = new_entry
    /\ to_write' = None
    /\ new_entry' = None
    /\ now' = 0
    /\ timestamp' = 0
    /\ captured' = FALSE
    /\ i' = 0
    /\ pc' = "wait"
    /\ UNCHANGED <<running, clock, current_date, ticks, obsHist, commitsSince,
                   observedStop, sleepsAfterStop, drainCalls, stopInWait>>
    /\ outcome' = ""
    /\ UNCHANGED <<mainVars, toolVars>>
    /\ UNCHANGED <<ocrVars, created, observed, screenshot, tmp_locked>>

\* for _ in range(interval): if not running: break
WaitCheck ==
    /\ pc = "wait"
    /\ IF i < interval /\ running
       THEN /\ pc' = "sleep"
            /\ UNCHANGED observedStop
       ELSE /\ pc' = "loop"
            /\ observedStop' = (observedStop \/ ~running)
    /\ UNCHANGED <<running, clock, current_entry, current_date, now,
                   timestamp, captured, to_write, new_entry, i, store, ticks,
                   obsHist, commitsSince, lastCall, ioFailures, sleepsAfterStop, drainCalls, stopInWait>>
    /\ UNCHANGED <<outcome, mainVars, toolVars>>
    /\ UNCHANGED <<ocrVars, tallyVars, screenshot, tmp_locked>>

\* time.sleep(1)
Sleep ==
    /\ pc = "sleep"
    /\ i' = i + 1
    /\ sleepsAfterStop' = sleepsAfterStop + (IF running THEN 0 ELSE 1)
    /\ pc' = "wait"
    /\ UNCHANGED <<running, clock, current_entry, current_date, now,
                   timestamp, captured, to_write, new_entry, store, ticks,
                   obsHist, commitsSince, lastCall, ioFailures, observedStop, drainCalls, stopInWait>>
    /\ UNCHANGED <<outcome, mainVars, toolVars>>
    /\ UNCHANGED <<ocrVars, tallyVars, screenshot, tmp_locked>>

\* except Exception: time.sleep(interval), one second at a time
ErrSleep ==
    /\ pc = "err_sleep"
    /\ IF i < interval
       THEN /\ i' = i + 1
            /\ sleepsAfterStop' = sleepsAfterStop + (IF running THEN 0 ELSE 1)
            /\ UNCHANGED pc
       ELSE /\ pc' = "loop"
            /\ UNCHANGED <<i, sleepsAfterStop>>
    /\ UNCHANGED <<running, clock, current_entry, current_date, now,
                   timestamp, captured, to_write, new_entry, store, ticks,
                   obsHist, commitsSince, lastCall, ioFailures, observedStop, drainCalls, stopInWait>>
    /\ UNCHANGED <<outcome, mainVars, toolVars>>
    /\ UNCHANGED <<ocrVars, tallyVars, screenshot, tmp_locked>>

\* after the loop: if current_entry is not None: write_log_entry(current_entry)
\* mutant: the final flush after the loop is forgotten
Drain_no_flush ==
    /\ pc = "drain"
    /\ pc' = "stopped"
    /\ UNCHANGED <<running, clock, current_entry, current_date, now,
                   timestamp, captured, to_write, new_entry, i, store, ticks,
                   obsHist, commitsSince, lastCall, ioFailures, observedStop,
                   sleepsAfterStop, drainCalls, stopInWait>>
    /\ UNCHANGED <<outcome, mainVars, toolVars>>
    /\ UNCHANGED <<ocrVars, tallyVars, screenshot, tmp_locked>>

Drain ==
    /\ pc = "drain"
    /\ IF current_entry # None
       THEN \E io_ok \in IoOutcomes :
               /\ store' = write_log_entry(store, current_entry, clock, io_ok)
               /\ lastCall' = CallRec(current_entry, clock, io_ok, "drain")
               /\ ioFailures' = ioFailures + (IF io_ok THEN 0 ELSE 1)
               /\ drainCalls' = drainCalls + 1
               /\ handed' = handed + 1
               /\ blankSnapshots' = blankSnapshots +
                     (IF write_result(current_entry, io_ok) = "skipped"
                      THEN current_entry.snapshot_count ELSE 0)
       ELSE UNCHANGED <<store, lastCall, ioFailures, drainCalls,
                        handed, blankSnapshots>>
    /\ pc' = "stopped"
    /\ UNCHANGED <<running, clock, current_entry, current_date, now,
                   timestamp, captured, to_write, new_entry, i, ticks,
                   obsHist, commitsSince, observedStop, sleepsAfterStop, stopInWait>>
    /\ UNCHANGED <<outcome, mainVars, toolVars>>
    /\ UNCHANGED <<ocrVars, created, observed, screenshot, tmp_locked>>

Next ==
    \/ signal_handler
    \/ Elapse
    \/ RunLoopStart
    \/ LoopCheck(MaxTicks)
    \/ CheckDate
    \/ RollWrite
    \/ CaptureOk
    \/ CaptureFailed
    \/ CaptureRaised
    \/ Fold(RunnerObs)
    \/ FoldRaised
    \/ Commit
    \/ WaitCheck
    \/ Sleep
    \/ ErrSleep
    \/ Drain

Spec == Init /\ [][Next]_vars

(* ------------------- the runner under fair scheduling ------------------ *)
MaxLiveTicks == 2

LiveObs ==
    { [app |-> "Editor",  title |-> "doc",  text |-> <<"a">>, conf |-> Rat(4, 5)],
      [app |-> "Browser", title |-> "web",  text |-> <<" ">>, conf |-> None] }

\* every step of the single-threaded runner eventually completes
RunnerStep ==
    \/ RunLoopStart
    \/ LoopCheck(MaxLiveTicks)
    \/ CheckDate
    \/ RollWrite
    \/ CaptureOk
    \/ CaptureFailed
    \/ CaptureRaised
    \/ Fold(LiveObs)
    \/ FoldRaised
    \/ Commit
    \/ WaitCheck
    \/ Sleep
    \/ ErrSleep
    \/ Drain

NextLive ==
    \/ signal_handler
    \/ Elapse
    \/ RunnerStep

FairSpec == Init /\ [][NextLive]_vars /\ WF_vars(RunnerStep)

(* ------------------ the runner over a used log directory --------------- *)
\* run_loop started where earlier runs have left an old daily file and a
\* file that is not a daily log
StaleAge == 31

StaleDir ==
    { LogFile(DateOf(StartClock) - StaleAge),
      Locked(LogFile(DateOf(StartClock) - StaleAge - 1)),
      OtherFile("jsonl") }

InitRecover ==
    /\ Fresh
    /\ pc = "init"
    /\ clock = StartClock
    /\ current_date = DateOf(StartClock)
    /\ once = FALSE
    /\ interval = IntervalArg
    /\ retention_days = DEFAULT_RETENTION_DAYS
    /\ logdir = StaleDir
    /\ file_exists = FALSE
    /\ file_lines = <<>>
    /\ ocr_results = <<>>
    /\ tmp_locked \in BOOLEAN

SpecRecover == InitRecover /\ [][NextLive]_vars

(* ------------------------- the command line ----------------------------- *)
\* config.validate_interval(interval) returns its argument; it raises
\* ValueError when this is false
validate_interval(n) == n >= MIN_INTERVAL

\* the values of -i / --interval tried
IntervalArgs == {IntervalArg, MIN_INTERVAL}

InitMain ==
    /\ Fresh
    /\ pc = "main"
    /\ clock = StartClock
    /\ current_date = DateOf(StartClock)
    /\ once \in BOOLEAN
    /\ interval \in IntervalArgs
    /\ retention_days = DEFAULT_RETENTION_DAYS
    /\ logdir = {}
    /\ file_exists = FALSE
    /\ file_lines = <<>>
    /\ ocr_results = <<>>
    /\ tmp_locked = FALSE

\* main(): the arguments are parsed, the signal handlers installed, then
\* either process_single_capture() is called once or
\* run_loop(interval=args.interval, retention_days=args.retention)
main ==
    /\ pc = "main"
    /\ pc' = IF once THEN "capture" ELSE "init"
    /\ UNCHANGED <<running, clock, current_entry, current_date, now, timestamp,
                   captured, to_write, new_entry, i, store, ticks,
                   obsHist, commitsSince, lastCall, ioFailures, observedStop,
                   sleepsAfterStop, drainCalls, stopInWait>>
    /\ UNCHANGED <<outcome, mainVars, toolVars>>
    /\ UNCHANGED <<ocrVars, tallyVars, screenshot, tmp_locked>>

\* --once: take_screenshot raises; nothing catches it and the interpreter
\* ends with a traceback and status 1
OnceCaptureRaised ==
    /\ pc = "capture"
    /\ once
    /\ exit_code' = 1
    /\ pc' = "exited"
    /\ UNCHANGED <<running, clock, current_entry, current_date, now, timestamp,
                   captured, to_write, new_entry, i, store, ticks,
                   obsHist, commitsSince, lastCall, ioFailures, observedStop,
                   sleepsAfterStop, drainCalls, stopInWait>>
    /\ UNCHANGED <<outcome, once, interval, retention_days, toolVars>>
    /\ UNCHANGED <<ocrVars, tallyVars, screenshot, tmp_locked>>

\* --once: if current_entry is not None: success = write_log_entry(...);
\* sys.exit(0 if success else 1); else: sys.exit(1)
OnceExit ==
    /\ pc = "commit"
    /\ once
    /\ IF new_entry # None
       THEN \E io_ok \in IoOutcomes :
               /\ store' = write_log_entry(store, new_entry, clock, io_ok)
               /\ lastCall' = CallRec(new_entry, clock, io_ok, "once")
               /\ ioFailures' = ioFailures + (IF io_ok THEN 0 ELSE 1)
               /\ handed' = handed + 1
               /\ blankSnapshots' = blankSnapshots +
                     (IF write_result(new_entry, io_ok) = "skipped"
                      THEN new_entry.snapshot_count ELSE 0)
               /\ exit_code' = IF write_result(new_entry, io_ok) = "failed"
                                THEN 1 ELSE 0
       ELSE /\ exit_code' = 1
            /\ UNCHANGED <<store, lastCall, ioFailures, handed, blankSnapshots>>
    /\ pc' = "exited"
    /\ UNCHANGED <<running, clock, current_entry, current_date, now, timestamp,
                   captured, to_write, new_entry, i, ticks,
                   obsHist, commitsSince, observedStop,
                   sleepsAfterStop, drainCalls, stopInWait>>
    /\ UNCHANGED <<outcome, once, interval, retention_days, toolVars>>
    /\ UNCHANGED <<ocrVars, created, observed, screenshot, tmp_locked>>

NextMain ==
    \/ main
    \/ OnceCaptureRaised
    \/ OnceExit
    \/ NextLive

SpecMain == InitMain /\ [][NextMain]_vars

(* ----------------------- the compactor on its own ----------------------- *)
\* A caller that threads the open entry through successive calls of
\* process_single_capture and persists nothing.
MaxFolds == 3

InitFold ==
    /\ Fresh
    /\ pc = "capture"
    /\ clock = StartClock
    /\ current_date = DateOf(StartClock)
    /\ once = FALSE
    /\ interval = IntervalArg
    /\ retention_days = DEFAULT_RETENTION_DAYS
    /\ logdir = {}
    /\ file_exists = FALSE
    /\ file_lines = <<>>
    /\ ocr_results = <<>>
    /\ tmp_locked = FALSE

\* current_entry = new_entry, then the next call
Adopt ==
    /\ pc = "commit"
    /\ current_entry' = new_entry
    /\ to_write' = None
    /\ new_entry' = None
    /\ timestamp' = 0
    /\ captured' = FALSE
    /\ ticks' = ticks + 1
    /\ pc' = IF ticks + 1 < MaxFolds THEN "capture" ELSE "stopped"
    /\ UNCHANGED <<running, clock, current_date, now, i, store, obsHist,
                   commitsSince, lastCall, ioFailures, observedStop,
                   sleepsAfterStop, drainCalls, stopInWait>>
    /\ outcome' = ""
    /\ UNCHANGED <<mainVars, toolVars>>
    /\ UNCHANGED <<ocrVars, tallyVars, screenshot, tmp_locked>>

NextFold ==
    \/ Elapse
    \/ CaptureOk
    \/ CaptureFailed
    \/ Fold(ObsSet)
    \/ FoldRaised
    \/ Adopt

SpecFold == InitFold /\ [][NextFold]_vars

\* datetime.now() reads the wall clock, which an adjustment (time
\* synchronisation, a change by hand) can set back
ClockSetBack ==
    /\ pc # "stopped"
    /\ \E d \in ClockSteps :
          /\ clock - d >= StartClock
          /\ clock' = clock - d
    /\ UNCHANGED <<running, pc, current_entry, current_date, now, timestamp,
                   captured, to_write, new_entry, i, store, ticks,
                   obsHist, commitsSince, lastCall, ioFailures, observedStop,
                   sleepsAfterStop, drainCalls, stopInWait>>
    /\ UNCHANGED <<outcome, mainVars, toolVars>>
    /\ UNCHANGED <<ocrVars, tallyVars, screenshot, tmp_locked>>

\* the compactor under a wall clock that is not monotonic
NextSkew ==
    \/ NextFold
    \/ ClockSetBack

SpecSkew == InitFold /\ [][NextSkew]_vars

(* --------------------------- the startup prune -------------------------- *)
\* run_loop started at the end of a day or exactly at midnight, with the
\* default retention or one day less, over any directory made of daily files
\* around the retention age, a dated file that is not a .jsonl file and a
\* .jsonl file that is not dated
PruneClocks == {StartClock, DayLen}

RetentionArgs == {DEFAULT_RETENTION_DAYS, DEFAULT_RETENTION_DAYS - 1}

FileAges ==
    {0, DEFAULT_RETENTION_DAYS - 1, DEFAULT_RETENTION_DAYS, DEFAULT_RETENTION_DAYS + 1}

DirUniverse(t) ==
    {LogFile(DateOf(t) - a) : a \in FileAges}
       \cup {Locked(LogFile(DateOf(t) - DEFAULT_RETENTION_DAYS - 1 - 1))}
       \cup {OtherFile("jsonl"),
             [LogFile(DateOf(t) - DEFAULT_RETENTION_DAYS - 1) EXCEPT !.ext = "txt"]}

InitPrune ==
    /\ Fresh
    /\ pc = "init"
    /\ clock \in PruneClocks
    /\ current_date = DateOf(clock)
    /\ once = FALSE
    /\ interval = IntervalArg
    /\ retention_days \in RetentionArgs
    /\ logdir \in SUBSET DirUniverse(clock)
    /\ file_exists = FALSE
    /\ file_lines = <<>>
    /\ ocr_results = <<>>
    /\ tmp_locked = FALSE

NextPrune == RunLoopStart

SpecPrune == InitPrune /\ [][NextPrune]_vars

(* ------------------------------- claims -------------------------------- *)
\* the state in which process_single_capture has just returned from a
\* successful capture: current_entry is still the entry passed in,
\* to_write and new_entry are the pair returned
(* --------------------------- text extraction --------------------------- *)
\* What the recogniser hands back for one image is a list of observations.
\* An observation has a top candidate or not; the candidate has a string, of
\* which the length is kept here, and a confidence.
MaxBlocks == 2

OcrBlock(len, conf) == [candidate |-> TRUE, len |-> len, conf |-> conf]

NoCandidate == [candidate |-> FALSE, len |-> 0, conf |-> Rat(0, 1)]

BlockLens == {1, MAX_CHARS \div 2, MAX_CHARS - 1, MAX_CHARS, MAX_CHARS + 1}

OcrBlocks ==
    {OcrBlock(n, c) : n \in BlockLens, c \in {Rat(4, 5), Rat(3, 5)}}
       \cup {NoCandidate}

OcrInputs == UNION {[1 .. n -> OcrBlocks] : n \in 0 .. MaxBlocks}

\* the for loop of extract_text from observation k on: texts holds the
\* lengths of the strings appended so far
RECURSIVE ocr_loop(_, _, _, _, _, _)
ocr_loop(results, k, texts, total_chars, total_confidence, count) ==
    LET done == [texts |-> texts, total_chars |-> total_chars,
                 total_confidence |-> total_confidence, count |-> count]
    IN
    IF k > Len(results) THEN done
    ELSE IF ~results[k].candidate
    THEN ocr_loop(results, k + 1, texts, total_chars, total_confidence, count)
    ELSE IF total_chars + results[k].len > MAX_CHARS
    THEN LET remaining == MAX_CHARS - total_chars IN
         IF remaining > 0
         THEN [done EXCEPT !.texts = Append(texts, remaining),
                           !.total_chars = total_chars + remaining]
         ELSE done
    ELSE ocr_loop(results, k + 1, Append(texts, results[k].len),
                  total_chars + results[k].len,
                  RatAdd(total_confidence, results[k].conf), count + 1)

RECURSIVE SumLen(_)
SumLen(texts) == IF texts = <<>> THEN 0 ELSE Head(texts) + SumLen(Tail(texts))

\* len("\n".join(texts)): one separator between two neighbours
join_len(texts) == SumLen(texts) + (IF texts = <<>> THEN 0 ELSE Len(texts) - 1)

\* extract_text(image_path): fails stands for every way into an early
\* return or an except branch (framework missing, image unreadable, request
\* failed, an exception), all of which return OCRResult("", None)
extract_text(results, fails) ==
    IF fails \/ results = <<>>
    THEN [status |-> "returned", text_len |-> 0, confidence |-> None]
    ELSE LET r == ocr_loop(results, 1, <<>>, 0, Rat(0, 1), 0) IN
         [status     |-> "returned",
          text_len   |-> join_len(r.texts),
          confidence |-> IF r.count > 0
                         THEN RatDivInt(r.total_confidence, r.count) ELSE None]

InitOcr ==
    /\ Fresh
    /\ pc = "ocr"
    /\ clock = StartClock
    /\ current_date = DateOf(StartClock)
    /\ once = FALSE
    /\ interval = IntervalArg
    /\ retention_days = DEFAULT_RETENTION_DAYS
    /\ logdir = {}
    /\ file_exists = FALSE
    /\ file_lines = <<>>
    /\ ocr_results \in OcrInputs
    /\ tmp_locked = FALSE

ExtractText ==
    /\ pc = "ocr"
    /\ \E fails \in BOOLEAN : ocr_out' = extract_text(ocr_results, fails)
    /\ pc' = "ocr_done"
    /\ UNCHANGED <<running, clock, current_entry, current_date, now, timestamp,
                   captured, to_write, new_entry, i, store, ticks,
                   obsHist, commitsSince, lastCall, ioFailures, observedStop,
                   sleepsAfterStop, drainCalls, stopInWait>>
    /\ UNCHANGED <<outcome, mainVars, toolVars, ocr_results, tallyVars,
                   screenshot, tmp_locked>>

NextOcr == ExtractText

SpecOcr == InitOcr /\ [][NextOcr]_vars

(* ------------------------- the digest of a day ------------------------- *)
\* A line of a daily file is what json.dumps wrote (raw "json", value the
\* object it holds), a line of white space only (raw "blank") or text that
\* json.loads rejects (raw "garbage").
MaxLines == 3
BlockMinutes == 30

JsonLine(v) == [raw |-> "json", value |-> v]

BlankLine == [raw |-> "blank", value |-> None]

GarbageLine == [raw |-> "garbage", value |-> None]

\* entries as write_log_entry stores them
StoredSamples ==
    { create_log_entry("Editor", "doc", <<"a">>, Rat(4, 5), StartClock),
      update_log_entry(create_log_entry("Browser", "web", <<"b">>, None, StartClock),
                       StartClock + MinuteLen, None) }

\* records that carry the key the digest reads
StampedSamples ==
    { [timestamp |-> ToIso(StartClock), active_app |-> "Editor",
       window_title |-> "doc", ocr_text |-> <<"a">>],
      [timestamp |-> ToIso(StartClock + DayLen \div 2), active_app |-> "Browser",
       window_title |-> "web", ocr_text |-> <<"b">>] }

LineSet ==
    {JsonLine(v) : v \in StoredSamples \cup StampedSamples}
       \cup {BlankLine, GarbageLine}

FileContents == UNION {[1 .. n -> LineSet] : n \in 0 .. MaxLines}

\* line.strip() is empty
strip_empty(line) == line.raw = "blank"

\* json.loads(line) raises
loads_raises(line) == line.raw = "garbage"

\* the loop of read_log_entries from line k on, acc the entries so far; the
\* try block encloses the whole loop, so the first line json.loads rejects
\* ends the reading
RECURSIVE read_from(_, _, _)
read_from(lines, k, acc) ==
    IF k > Len(lines) THEN acc
    ELSE IF strip_empty(lines[k]) THEN read_from(lines, k + 1, acc)
    ELSE IF loads_raises(lines[k]) THEN acc
    ELSE read_from(lines, k + 1, Append(acc, lines[k].value))

read_log_entries(exists, lines) ==
    IF ~exists THEN <<>> ELSE read_from(lines, 1, <<>>)

\* entry["timestamp"] raises KeyError when the key is missing
HasKey(entry, key) == key \in DOMAIN entry

\* the apps of es in order of first appearance
RECURSIVE apps_in_order(_, _)
apps_in_order(es, acc) ==
    IF es = <<>> THEN acc
    ELSE LET app == Head(es).active_app IN
         apps_in_order(Tail(es),
                       IF \E k \in 1 .. Len(acc) : acc[k] = app
                       THEN acc ELSE Append(acc, app))

usage_count(es, app) == Cardinality({k \in 1 .. Len(es) : es[k].active_app = app})

\* sorted(..., key=count, reverse=True) is stable: x goes behind every item
\* whose count is not smaller
insert_desc(sorted, x) ==
    LET keep == {k \in 1 .. Len(sorted) : sorted[k].count >= x.count}
        n == Cardinality(keep)
    IN  SubSeq(sorted, 1, n) \o <<x>> \o SubSeq(sorted, n + 1, Len(sorted))

RECURSIVE sort_desc(_, _)
sort_desc(items, sorted) ==
    IF items = <<>> THEN sorted
    ELSE sort_desc(Tail(items), insert_desc(sorted, Head(items)))

calculate_app_usage(es) ==
    LET apps == apps_in_order(es, <<>>) IN
    sort_desc([k \in 1 .. Len(apps) |->
                  [app |-> apps[k], count |-> usage_count(es, apps[k])]], <<>>)

\* ts.replace(minute=(ts.minute // block_minutes) * block_minutes, second=0)
block_start(entry) ==
    LET t == FromIso(entry.timestamp) IN t - (t % (BlockMinutes * MinuteLen))

RECURSIVE ascending(_)
ascending(S) ==
    IF S = {} THEN <<>>
    ELSE LET m == CHOOSE x \in S : \A y \in S : x <= y
         IN  <<m>> \o ascending(S \ {m})

\* dict(sorted(blocks.items())): the blocks in time order, each with its
\* entries in file order
group_entries_by_time_block(es) ==
    LET starts == ascending({block_start(es[k]) : k \in 1 .. Len(es)}) IN
    [b \in 1 .. Len(starts) |->
        [start   |-> ToIso(starts[b]),
         entries |-> SelectSeq(es, LAMBDA e : block_start(e) = starts[b])]]

\* timestamp[11:16], as the minute of the day
hhmm(entry) == entry.timestamp.secs \div MinuteLen

generate_raw_log_unguarded(date, es) ==
    IF \E k \in 1 .. Len(es) : ~HasKey(es[k], "timestamp")
    THEN [status |-> "KeyError", heading |-> date, body |-> "", count |-> 0,
          span |-> <<>>, usage |-> <<>>, blocks |-> <<>>]
    ELSE [status |-> "returned", heading |-> date, body |-> "report",
          count |-> Len(es),
          span |-> IF es = <<>> THEN <<>>
                   ELSE <<hhmm(es[1]), hhmm(es[Len(es)])>>,
          usage |-> calculate_app_usage(es),
          blocks |-> group_entries_by_time_block(es)]

\* generate_raw_log after the entries are read: the "no records" text, a
\* KeyError out of the first entry["timestamp"], or the report (its header,
\* the usage list and the blocks; the rendering of the texts inside a block
\* is left out)
generate_raw_log(date, es) ==
    IF es = <<>>
    THEN [status |-> "returned", heading |-> date, body |-> "no_records",
          count |-> 0, span |-> <<>>, usage |-> <<>>, blocks |-> <<>>]
    ELSE IF \E k \in 1 .. Len(es) : ~HasKey(es[k], "timestamp")
    THEN [status |-> "KeyError", heading |-> date, body |-> "", count |-> 0,
          span |-> <<>>, usage |-> <<>>, blocks |-> <<>>]
    ELSE [status |-> "returned", heading |-> date, body |-> "report",
          count |-> Len(es),
          span |-> <<hhmm(es[1]), hhmm(es[Len(es)])>>,
          usage |-> calculate_app_usage(es),
          blocks |-> group_entries_by_time_block(es)]

InitDigest ==
    /\ Fresh
    /\ pc = "digest"
    /\ clock = StartClock
    /\ current_date \in {DateOf(StartClock), DateOf(MaxClock)}
    /\ once = FALSE
    /\ interval = IntervalArg
    /\ retention_days = DEFAULT_RETENTION_DAYS
    /\ logdir = {}
    /\ file_exists \in BOOLEAN
    /\ file_lines \in (IF file_exists THEN FileContents ELSE {<<>>})
    /\ ocr_results = <<>>
    /\ tmp_locked = FALSE

\* entries = read_log_entries(date)
ReadEntries ==
    /\ pc = "digest"
    /\ entries' = read_log_entries(file_exists, file_lines)
    /\ pc' = "format"
    /\ UNCHANGED <<running, clock, current_entry, current_date, now, timestamp,
                   captured, to_write, new_entry, i, store, ticks,
                   obsHist, commitsSince, lastCall, ioFailures, observedStop,
                   sleepsAfterStop, drainCalls, stopInWait>>
    /\ UNCHANGED <<outcome, mainVars, logdir, deleted, file_exists, file_lines, report>>
    /\ UNCHANGED <<ocrVars, tallyVars, screenshot, tmp_locked>>

\* the rest of generate_raw_log
FormatLog ==
    /\ pc = "format"
    /\ report' = generate_raw_log(current_date, entries)
    /\ pc' = "digest_done"
    /\ UNCHANGED <<running, clock, current_entry, current_date, now, timestamp,
                   captured, to_write, new_entry, i, store, ticks,
                   obsHist, commitsSince, lastCall, ioFailures, observedStop,
                   sleepsAfterStop, drainCalls, stopInWait>>
    /\ UNCHANGED <<outcome, mainVars, logdir, deleted, file_exists, file_lines, entries>>
    /\ UNCHANGED <<ocrVars, tallyVars, screenshot, tmp_locked>>

NextDigest ==
    \/ ReadEntries
    \/ FormatLog

SpecDigest == InitDigest /\ [][NextDigest]_vars

Folded == pc = "commit" /\ outcome = "folded"

LastObs == obsHist[Len(obsHist)]

AllWhitespace(t) == \A k \in 1 .. Len(t) : t[k] \in Whitespace

\* C1: at a day rollover the open entry is appended to the file of the day
\* on which it was started, never to another day's file, and it is cleared.
C1_RolloverWritesPreviousDay ==
    [][pc = "roll_write" =>
          /\ \A d \in Days :
                store'[d] # store[d] => d = DateOf(FromIso(current_entry.start_time))
          /\ current_entry' = None]_vars

\* C2: a new entry is started iff the open entry is absent or its text
\* differs from the observation's; then the previous open entry is returned
\* for commit and the new entry is built from the observation alone.
C2_FoldDecision ==
    Folded =>
       LET o == LastObs
           differs == current_entry = None \/ current_entry.ocr_text # o.text
       IN  /\ differs =>
                /\ to_write = current_entry
                /\ new_entry = [ start_time         |-> ToIso(o.ts),
                                 end_time           |-> ToIso(o.ts),
                                 duration_minutes   |-> 1,
                                 snapshot_count     |-> 1,
                                 active_app         |-> o.app,
                                 window_title       |-> o.title,
                                 ocr_text           |-> o.text,
                                 avg_ocr_confidence |-> o.conf ]
           /\ ~differs =>
                /\ to_write = None
                /\ new_entry.start_time = current_entry.start_time
                /\ new_entry.snapshot_count = current_entry.snapshot_count + 1

\* C2 witness: a text change with an open entry, and a first observation
C2_Witness ==
    /\ Folded
    /\ current_entry # None
    /\ current_entry.ocr_text # LastObs.text
    /\ LastObs.text = <<>>
    /\ to_write = current_entry
    /\ new_entry.snapshot_count = 1

\* C3: on equal text nothing is returned for commit and the open entry is
\* extended: same start, app, title and text, end_time the observation's
\* timestamp, one more snapshot, duration floor(minutes since start) + 1.
C3_FoldExtend ==
    (Folded /\ current_entry # None /\ current_entry.ocr_text = LastObs.text) =>
       /\ to_write = None
       /\ new_entry.start_time = current_entry.start_time
       /\ new_entry.active_app = current_entry.active_app
       /\ new_entry.window_title = current_entry.window_title
       /\ new_entry.ocr_text = current_entry.ocr_text
       /\ new_entry.end_time = ToIso(LastObs.ts)
       /\ new_entry.snapshot_count = current_entry.snapshot_count + 1
       /\ new_entry.duration_minutes =
             ((LastObs.ts - FromIso(current_entry.start_time)) \div MinuteLen) + 1

\* C3 witness: an extension 90 seconds after the start, by another window
C3_Witness ==
    /\ Folded
    /\ current_entry # None
    /\ current_entry.ocr_text = LastObs.text
    /\ LastObs.ts - FromIso(current_entry.start_time) = 90
    /\ new_entry.duration_minutes = 2
    /\ LastObs.app # current_entry.active_app

\* C4: n observations of identical text folded from no open entry give an
\* entry with snapshot_count n, the first timestamp as start, the last as
\* end, and nothing returned for commit on the way.
C4_IdenticalRun ==
    (Folded /\ \A k \in 1 .. Len(obsHist) : obsHist[k].text = obsHist[1].text) =>
       /\ new_entry.snapshot_count = Len(obsHist)
       /\ new_entry.start_time = ToIso(obsHist[1].ts)
       /\ new_entry.end_time = ToIso(LastObs.ts)
       /\ commitsSince = 0
       /\ to_write = None

\* C4 witness: three identical observations at three different times
C4_Witness ==
    /\ Folded
    /\ Len(obsHist) = 3
    /\ \A k \in 1 .. 3 : obsHist[k].text = <<"a">>
    /\ obsHist[1].ts < obsHist[2].ts
    /\ obsHist[2].ts < obsHist[3].ts
    /\ new_entry.snapshot_count = 3

\* the first observation of the run of equal texts that ends obsHist: the
\* observations from there on are those folded into the entry of LastObs
RunStart ==
    CHOOSE k \in 1 .. Len(obsHist) :
       /\ \A j \in k .. Len(obsHist) : obsHist[j].text = LastObs.text
       /\ k = 1 \/ obsHist[k - 1].text # LastObs.text

PresentIdx == {j \in RunStart .. Len(obsHist) : obsHist[j].conf # None}

RECURSIVE SumConf(_)
SumConf(S) ==
    IF S = {} THEN Rat(0, 1)
    ELSE LET j == CHOOSE x \in S : TRUE
         IN  RatAdd(obsHist[j].conf, SumConf(S \ {j}))

\* C5: the entry's average confidence is the arithmetic mean of the
\* confidences that were present among the observations folded into it,
\* and absent iff none was present.
C5_MeanOfPresent ==
    Folded =>
       IF PresentIdx = {}
       THEN new_entry.avg_ocr_confidence = None
       ELSE new_entry.avg_ocr_confidence =
               RatDivInt(SumConf(PresentIdx), Cardinality(PresentIdx))

\* C6: one extension: both present, new = (old * count + c) / (count + 1);
\* only the new one present, it becomes the average; new one absent, the
\* average stays.  Folding 0.8 then 0.6 gives 0.7.
C6_ConfidenceStep ==
    (Folded /\ current_entry # None /\ current_entry.ocr_text = LastObs.text) =>
       LET old == current_entry.avg_ocr_confidence
           cnt == current_entry.snapshot_count
           c   == LastObs.conf
           new == new_entry.avg_ocr_confidence
       IN  /\ (old # None /\ c # None) =>
                /\ new # None
                /\ new.num * (old.den * c.den * (cnt + 1))
                      = (old.num * cnt * c.den + c.num * old.den) * new.den
           /\ (old = None /\ c # None) => new = c
           /\ c = None => new = old
           /\ (cnt = 1 /\ old = [num |-> 4, den |-> 5] /\ c = [num |-> 3, den |-> 5])
                 => new = [num |-> 7, den |-> 10]

\* C6 witness: 0.8 then 0.6 folded into one entry
C6_Witness ==
    /\ Folded
    /\ current_entry # None
    /\ current_entry.ocr_text = LastObs.text
    /\ current_entry.snapshot_count = 1
    /\ current_entry.avg_ocr_confidence = [num |-> 4, den |-> 5]
    /\ LastObs.conf = [num |-> 3, den |-> 5]
    /\ new_entry.avg_ocr_confidence = [num |-> 7, den |-> 10]

\* C7: every entry stored in the file of date D was started on date D.
C7_FileDateIsStartDate ==
    \A d \in Days : \A k \in 1 .. Len(store[d]) :
       DateOf(FromIso(store[d][k].start_time)) = d

\* C8: write_log_entry on a blank text (empty or whitespace only) reports
\* success without writing, and no daily file ever holds a blank entry.
C8_BlankNeverStored ==
    /\ \A d \in Days : \A k \in 1 .. Len(store[d]) :
          ~AllWhitespace(store[d][k].ocr_text)
    /\ (lastCall # None /\ AllWhitespace(lastCall.entry.ocr_text))
          => lastCall.result = "skipped"
    /\ (lastCall # None /\ ~AllWhitespace(lastCall.entry.ocr_text))
          => lastCall.result # "skipped"

\* C8 witness: a whitespace-only entry was handed to the store and skipped
\* while another entry is on file
C8_Witness ==
    /\ lastCall # None
    /\ lastCall.entry.ocr_text = <<" ">>
    /\ lastCall.result = "skipped"
    /\ \E d \in Days : store[d] # <<>>

C9_NoTickAfterStopSeen == observedStop => pc \in {"loop", "drain", "stopped"}

C9_Drained ==
    (pc = "stopped" /\ current_entry # None) =>
       /\ drainCalls = 1
       /\ lastCall # None
       /\ lastCall.site = "drain"
       /\ lastCall.entry = current_entry
       /\ (lastCall.result = "skipped") = AllWhitespace(current_entry.ocr_text)
       /\ lastCall.result = "written" =>
             /\ store[lastCall.file] # <<>>
             /\ store[lastCall.file][Len(store[lastCall.file])] = current_entry

\* C9: once the stop signal is delivered the runner reaches STOPPED, starts
\* no tick after it has seen the flag, and at STOPPED the open entry has
\* been handed to the store exactly once by the drain.
C9_ShutdownDrain ==
    /\ (~running) ~> (pc = "stopped")
    /\ []C9_NoTickAfterStopSeen
    /\ []C9_Drained

\* C9 witness: stopped after the drain wrote a non-blank open entry
C9_Witness ==
    /\ pc = "stopped"
    /\ current_entry # None
    /\ lastCall # None
    /\ lastCall.site = "drain"
    /\ lastCall.result = "written"
    /\ observedStop

\* C10: when the stop flag is set while the runner waits between ticks
\* (after a normal tick or in the error handler), the runner begins at most
\* one further one-second sleep before it leaves the wait.
C10_BoundedShutdownLatency ==
    stopInWait => sleepsAfterStop <= 1

(* ------------------------------- C11 ----------------------------------- *)
\* C11: a tick whose capture fails is skipped.  The capture step returns
\* nothing to commit and the open entry it was given, unchanged; the rest of
\* the tick appends nothing to the store, calls the store not at all, leaves
\* the open entry as it was and goes to the normal wait of the loop.
C11_CaptureFailureSkipsTick ==
    [][ /\ (pc = "capture" /\ outcome' = "capture_failed")
              => /\ to_write' = None
                 /\ new_entry' = current_entry
                 /\ current_entry' = current_entry
                 /\ store' = store
        /\ (pc = "commit" /\ outcome = "capture_failed" /\ pc' # pc)
              => /\ current_entry' = current_entry
                 /\ store' = store
                 /\ lastCall' = lastCall
                 /\ pc' = "wait"
                 /\ i' = 0 ]_vars

\* a capture has failed while an entry extended at least once is open
C11_Witness ==
    /\ pc = "commit"
    /\ outcome = "capture_failed"
    /\ current_entry # None
    /\ current_entry.snapshot_count >= 2

(* ------------------------------- C12 ----------------------------------- *)
\* the steps in which something fails: an unlink of the startup prune, the
\* capture (returning nothing or raising), the window inspection or text
\* extraction, a write to the log
PruneFailed ==
    /\ pc = "init"
    /\ pc' # pc
    /\ cleanup_targets(logdir, clock, retention_days) \cap logdir' # {}

CaptureSkipped == pc = "capture" /\ outcome' = "capture_failed"

CaptureThrew == pc = "capture" /\ pc' = "err_sleep"

InspectionThrew == pc = "fold" /\ outcome' = "fold_raised"

WriteFailed == pc \in {"roll_write", "commit"} /\ ioFailures' = ioFailures + 1

\* the remainder of a tick whose observation was lost
SkippedCommit ==
    pc = "commit" /\ outcome \in {"capture_failed", "fold_raised"} /\ pc' # pc

\* the runner goes on: it is not past its loop unless the stop flag is set,
\* and a new tick starts only after the whole interval, or, in the normal
\* wait, after the stop flag was set
RunnerGoesOn ==
    /\ pc' \in {"drain", "stopped"} => ~running'
    /\ (pc = "wait" /\ pc' = "loop") => (i = interval \/ ~running)
    /\ (pc = "err_sleep" /\ pc' = "loop") => i = interval

StoreOnlyGrows ==
    \A d \in Days :
       /\ Len(store'[d]) >= Len(store[d])
       /\ \A k \in 1 .. Len(store[d]) : store'[d][k] = store[d][k]

\* C13: a fold whose text differs from the open entry's closes exactly one
\* entry and opens exactly one.  The entry returned for commit is, field for
\* field, the open entry as its last extension (or its creation) left it: it
\* ends at the previous observation, not at the one that closes it.  The
\* fold leaves the entry it was given untouched, what the commit appends is
\* exactly the returned entry, and no later step changes a stored entry.
C13_ClosedEntryIsFinal ==
    [][ /\ (pc = "fold" /\ outcome' = "folded") =>
              LET o == obsHist'[Len(obsHist')] IN
                 /\ current_entry' = current_entry
                 /\ (current_entry # None /\ current_entry.ocr_text # o.text) =>
                       /\ to_write' = current_entry
                       /\ to_write'.end_time = ToIso(obsHist[Len(obsHist)].ts)
                       /\ to_write'.ocr_text = obsHist[Len(obsHist)].text
                       /\ new_entry'.snapshot_count = 1
                       /\ new_entry'.start_time = ToIso(o.ts)
                       /\ new_entry'.ocr_text = o.text
        /\ (pc = "commit" /\ pc' # pc) =>
              \A d \in Days :
                 store'[d] # store[d] => store'[d] = Append(store[d], to_write)
        /\ StoreOnlyGrows ]_vars

\* an entry extended once is closed by a text change that comes later
C13_Witness ==
    /\ Folded
    /\ to_write # None
    /\ to_write.snapshot_count = 2
    /\ FromIso(to_write.end_time) < LastObs.ts
    /\ new_entry.snapshot_count = 1

(* ------------------------------- C14 ----------------------------------- *)
WellFormed(e) ==
    /\ FromIso(e.start_time) <= FromIso(e.end_time)
    /\ e.snapshot_count >= 1
    /\ e.duration_minutes >= 1

\* C14: whatever timestamps the clock supplies, every entry the compactor
\* has created or extended (the open entry, the entry a fold returns as the
\* new open entry, the entry it returns for commit) has start_time <=
\* end_time, snapshot_count >= 1 and duration_minutes >= 1.
C14_EntryInvariants ==
    \A e \in {current_entry, new_entry, to_write} \ {None} : WellFormed(e)

(* ------------------------------- C15 ----------------------------------- *)
\* the objects of the lines json.loads accepts, in file order
RECURSIVE WellFormedRecords(_)
WellFormedRecords(lines) ==
    IF lines = <<>> THEN <<>>
    ELSE IF Head(lines).raw = "json"
         THEN <<Head(lines).value>> \o WellFormedRecords(Tail(lines))
         ELSE WellFormedRecords(Tail(lines))

\* C15: read_log_entries returns exactly the well-formed records of the
\* day's file, in file order: a malformed line is skipped and the well-formed
\* lines after it are still returned; for an absent file it returns the
\* empty sequence.
C15_ReadSkipsMalformed ==
    pc = "format" =>
       entries = (IF file_exists THEN WellFormedRecords(file_lines) ELSE <<>>)

(* ------------------------------- C16 ----------------------------------- *)
LogEntryFields ==
    {"start_time", "end_time", "duration_minutes", "snapshot_count",
     "active_app", "window_title", "ocr_text", "avg_ocr_confidence"}

\* C16: for every non-empty sequence of entries as the log store persists
\* them (exactly the LogEntry fields) generate_raw_log completes without an
\* error and returns a report: one line per app with its number of entries,
\* in descending order of that number, and the entries in 30-minute blocks.
C16_DigestOfStoredEntries ==
    ( /\ pc = "digest_done"
      /\ entries # <<>>
      /\ \A k \in 1 .. Len(entries) : DOMAIN entries[k] = LogEntryFields )
    => /\ report.status = "returned"
       /\ report.body = "report"
       /\ report.count = Len(entries)
       /\ \A k \in 1 .. Len(report.usage) - 1 :
             report.usage[k].count >= report.usage[k + 1].count
       /\ \A k \in 1 .. Len(entries) :
             \E a \in 1 .. Len(report.usage) :
                report.usage[a].app = entries[k].active_app
       /\ Len(report.blocks) >= 1

(* ------------------------------- C17 ----------------------------------- *)
\* the daily files of dir named for a day that began before t - days
OlderThan(dir, t, days) ==
    {f \in dir : f.ext = "jsonl" /\ f.stem = "date"
                   /\ f.day * DayLen < t - days * DayLen}

\* C17: cleanup_old_logs(days) removes exactly the daily files whose name
\* is a date older than now - days (those unlink() can remove), leaves every
\* other file in place and returns the number of files it removed.  Of
\* files dated today, 29 days ago and 31 days ago, with days = 30, only the
\* last is removed and the result is 1.
C17_PruneByDate ==
    [][ (pc = "init" /\ pc' = "loop") =>
           LET old == OlderThan(logdir, clock, retention_days)
               today == DateOf(clock)
               example == {LogFile(today),
                           LogFile(today - DEFAULT_RETENTION_DAYS + 1),
                           LogFile(today - DEFAULT_RETENTION_DAYS - 1)}
           IN  /\ logdir' = logdir \ {f \in old : ~f.locked}
               /\ deleted' = Cardinality(logdir \ logdir')
               /\ (logdir = example /\ retention_days = DEFAULT_RETENTION_DAYS)
                     => /\ logdir' = example \ {LogFile(today - DEFAULT_RETENTION_DAYS - 1)}
                        /\ deleted' = 1 ]_vars

\* the prune has run over files on both sides of the cutoff: the file dated
\* exactly the retention age went, a file of today, a file that is not a
\* daily log and a file that could not be removed are still there
C17_Witness ==
    /\ pc = "loop"
    /\ deleted = 2
    /\ retention_days = DEFAULT_RETENTION_DAYS
    /\ LogFile(DateOf(clock)) \in logdir
    /\ LogFile(DateOf(clock) - DEFAULT_RETENTION_DAYS) \notin logdir
    /\ OtherFile("jsonl") \in logdir
    /\ \E f \in logdir : f.locked

(* ------------------------------- C18 ----------------------------------- *)
\* C18: with --once one capture is made and its entry is committed at once;
\* the exit status is 0 exactly when an entry was produced and committed to
\* the store, and not 0 whenever no entry was produced or none was committed.
C18_OnceExitStatus ==
    (once /\ pc = "exited") =>
       /\ Len(obsHist) <= 1
       /\ exit_code = 0 <=>
             /\ new_entry # None
             /\ \E d \in Days : store[d] = <<new_entry>>

(* ------------------------------- C19 ----------------------------------- *)
\* C19: the continuous runner never does a capture tick with an interval
\* under the floor of 10 seconds: such an interval is rejected at startup
\* with a validation error and the loop is not started.
C19_IntervalFloor ==
    (~once /\ ~validate_interval(interval)) =>
       /\ pc \in {"main", "exited"}
       /\ pc = "exited" => exit_code # 0

(* ------------------------------- C20 ----------------------------------- *)
\* C20: the merge key is the text alone.  An observation whose text equals
\* the open entry's but whose app or window title differs is merged: nothing
\* is returned for commit, the snapshot count grows by one, and the merged
\* entry keeps the app and the title of the first observation of the run.
C20_TextOnlyMergeKey ==
    ( /\ Folded
      /\ current_entry # None
      /\ current_entry.ocr_text = LastObs.text
      /\ \/ current_entry.active_app # LastObs.app
         \/ current_entry.window_title # LastObs.title )
    => /\ to_write = None
       /\ new_entry.snapshot_count = current_entry.snapshot_count + 1
       /\ new_entry.active_app = obsHist[RunStart].app
       /\ new_entry.window_title = obsHist[RunStart].title
       /\ new_entry.ocr_text = LastObs.text

\* a run of three observations of one text, each from another app or window
C20_Witness ==
    /\ Folded
    /\ Len(obsHist) = 3
    /\ RunStart = 1
    /\ obsHist[1].app # obsHist[2].app
    /\ obsHist[2].title # obsHist[3].title
    /\ obsHist[1].title # obsHist[3].title
    /\ to_write = None
    /\ new_entry.snapshot_count = 3
    /\ new_entry.active_app = obsHist[1].app

(* ------------------------------- C21 ----------------------------------- *)
\* C21: whatever text blocks are recognised, the text extract_text returns
\* is at most 20,000 characters long, and extract_text returns (the empty
\* text with no confidence on a failure) and never raises.
C21_TextLengthCap ==
    pc = "ocr_done" =>
       /\ ocr_out.status = "returned"
       /\ ocr_out.text_len <= MAX_CHARS

(* ------------------------------- C22 ----------------------------------- *)
\* C22: when the entries read for the day are the empty list (the daily file
\* is absent or empty) the digest returns the fixed "no records" message
\* headed by that date, and no usage histogram and no time block is made.
C22_NoRecordsDigest ==
    (pc = "digest_done" /\ entries = <<>>)
    => /\ report.status = "returned"
       /\ report.body = "no_records"
       /\ report.heading = current_date
       /\ report.count = 0
       /\ report.usage = <<>>
       /\ report.blocks = <<>>

C22_Witness ==
    /\ pc = "digest_done"
    /\ file_exists
    /\ file_lines = <<>>
    /\ entries = <<>>
    /\ report.body = "no_records"
    /\ current_date = DateOf(MaxClock)

(* ------------------------------- C23 ----------------------------------- *)
SameDay(e) == e.start_time.date = e.end_time.date

\* C23: no entry spans a day boundary: the open entry, the entries a tick
\* has just produced and every committed entry start and end on the same
\* local date, also when the same text is seen on both sides of midnight and
\* when the clock read of the rollover check and the timestamp of the tick's
\* observation fall on different sides of midnight.
C23_NoEntrySpansMidnight ==
    /\ current_entry # None => SameDay(current_entry)
    /\ new_entry # None => SameDay(new_entry)
    /\ to_write # None => SameDay(to_write)
    /\ \A d \in Days : \A k \in 1 .. Len(store[d]) : SameDay(store[d][k])

(* ------------------------------- C24 ----------------------------------- *)
TickPcs == {"tick_date", "roll_write", "capture", "fold", "commit"}

\* the delivery of the signal changes the flag and nothing of the runner
C24_SignalOnlySetsFlag ==
    (running /\ ~running') =>
       UNCHANGED <<pc, current_entry, current_date, to_write, new_entry,
                   captured, timestamp, now, i, store, ticks, lastCall>>

\* with the flag set the tick in progress goes its usual way: no step leaves
\* the tick except the commit (or the exception handler of the loop), the
\* commit hands the entry-to-commit to the store and makes the tick's open
\* entry the runner's open entry
C24_TickCompletes ==
    (~running /\ pc \in TickPcs) =>
       /\ pc' \in TickPcs \cup {"wait", "err_sleep"}
       /\ pc' = "wait" => pc = "commit"
       /\ pc' = pc => UNCHANGED <<current_entry, to_write, new_entry, store>>
       /\ (pc = "commit" /\ pc' # pc) =>
             /\ pc' = "wait"
             /\ current_entry' = new_entry
             /\ to_write # None =>
                   /\ lastCall'.site = "change"
                   /\ lastCall'.entry = to_write
                   /\ lastCall'.result = "written" =>
                         store'[lastCall'.file] = Append(store[lastCall'.file], to_write)

\* from the end of the tick to the drain the open entry stays, and the drain
\* hands it to the store
C24_OpenEntryDrained ==
    /\ (~running /\ pc \in {"wait", "sleep", "loop"}) =>
          /\ current_entry' = current_entry
          /\ pc' \in {"wait", "sleep", "loop", "drain"}
    /\ (pc = "drain" /\ pc' # pc) =>
          /\ pc' = "stopped"
          /\ current_entry' = current_entry
          /\ current_entry # None =>
                /\ lastCall'.site = "drain"
                /\ lastCall'.entry = current_entry
                /\ lastCall'.result = "written" =>
                      store'[lastCall'.file] = Append(store[lastCall'.file], current_entry)

\* C24: cancellation is cooperative.  A stop signal delivered during a tick
\* (before the capture, between capture and fold, between fold and commit)
\* only sets the stop flag; the tick runs to its end, its entry-to-commit is
\* handed to the store, the open entry the tick produced becomes the
\* runner's open entry, and the runner then reaches STOPPED through the
\* drain, which hands that open entry to the store.
C24_CooperativeCancellation ==
    /\ [][C24_SignalOnlySetsFlag /\ C24_TickCompletes /\ C24_OpenEntryDrained]_vars
    /\ (~running /\ pc \in TickPcs) ~> (pc = "stopped")

\* C24 witness: the flag was set during a tick whose fold closed one entry
\* and opened another
C24_Witness ==
    /\ pc = "commit"
    /\ ~running
    /\ outcome = "folded"
    /\ to_write # None
    /\ new_entry # None

(* ------------------------------- C25 ----------------------------------- *)
\* the commit step of a text-change tick whose store write fails
FailedChangeWrite ==
    /\ pc = "commit"
    /\ pc' = "wait"
    /\ to_write # None
    /\ lastCall'.result = "failed"

\* C25: a write failure loses only that entry.  When the write of the
\* entry-to-commit fails on a text-change tick, write_log_entry reports it
\* by its result and the runner goes on to its wait; the failed entry is
\* held by the runner no longer (it is not retried and cannot be written
\* later), the open entry is the newly started entry, and every daily file
\* is as it was.
C25_WriteFailureLosesOnlyThatEntry ==
    [][FailedChangeWrite =>
          /\ lastCall'.site = "change"
          /\ lastCall'.entry = to_write
          /\ ioFailures' = ioFailures + 1
          /\ store' = store
          /\ new_entry # None
          /\ new_entry # to_write
          /\ current_entry' = new_entry
          /\ to_write' = None
          /\ new_entry' = None]_vars

\* C25 witness: after the failed write of a text-change tick, with lines
\* stored before it and the new entry open
C25_Witness ==
    /\ pc = "wait"
    /\ lastCall # None
    /\ lastCall.site = "change"
    /\ lastCall.result = "failed"
    /\ current_entry # None
    /\ current_entry # lastCall.entry
    /\ \E d \in Days : store[d] # <<>>

(* ------------------------------- C26 ----------------------------------- *)
RECURSIVE SumSnapshots(_)
SumSnapshots(es) ==
    IF es = <<>> THEN 0
    ELSE Head(es).snapshot_count + SumSnapshots(Tail(es))

RECURSIVE SumOverDays(_, _)
SumOverDays(f(_), D) ==
    IF D = {} THEN 0
    ELSE LET d == CHOOSE x \in D : TRUE IN f(d) + SumOverDays(f, D \ {d})

StoredLinesOf(d) == Len(store[d])

StoredSnapshotsOf(d) == SumSnapshots(store[d])

StoredLines == SumOverDays(StoredLinesOf, Days)

StoredSnapshots == SumOverDays(StoredSnapshotsOf, Days)

\* the entries the runner holds and has not handed to the store yet
InHand ==
    IF pc = "stopped" THEN <<>>
    ELSE IF pc = "commit"
    THEN (IF to_write # None THEN <<to_write>> ELSE <<>>)
           \o (IF new_entry # None THEN <<new_entry>> ELSE <<>>)
    ELSE IF current_entry # None THEN <<current_entry>> ELSE <<>>

\* C26: exactly-once commit and snapshot conservation.  In a run of the
\* continuous runner without write failures every entry the fold opened is
\* either still held by the runner or was handed to the store exactly once,
\* every hand-over appended one line or was dropped as blank, and the
\* snapshot counts of the stored entries, of the entries dropped as blank
\* and of the entries still held add up to the number of successful
\* observations; at STOPPED nothing is held, so the stored and the dropped
\* snapshots alone add up to it.
C26_ExactlyOnceAndConservation ==
    ioFailures = 0 =>
       /\ created = handed + Len(InHand)
       /\ StoredLines <= handed
       /\ StoredSnapshots + blankSnapshots + SumSnapshots(InHand) = observed
       /\ pc = "stopped" =>
             /\ handed = created
             /\ StoredSnapshots + blankSnapshots = observed

\* C26 witness: stopped after a run without a failed write in which an
\* entry of several snapshots was stored and a blank entry was dropped
C26_Witness ==
    /\ pc = "stopped"
    /\ ioFailures = 0
    /\ observed >= 3
    /\ blankSnapshots >= 1
    /\ handed >= 2
    /\ \E d \in Days : \E k \in 1 .. Len(store[d]) : store[d][k].snapshot_count >= 2

(* ------------------------------- C27 ----------------------------------- *)
\* neighbouring lines of a daily file do not overlap in time
Chronological(lines) ==
    \A k \in 1 .. Len(lines) - 1 :
       FromIso(lines[k].end_time) <= FromIso(lines[k + 1].start_time)

\* a step leaves a daily file as it is or adds one line at its end
AppendsAtEnd ==
    \A d \in Days :
       \/ store'[d] = store[d]
       \/ /\ Len(store'[d]) = Len(store[d]) + 1
          /\ SubSeq(store'[d], 1, Len(store[d])) = store[d]
          /\ lastCall' # None
          /\ store'[d][Len(store'[d])] = lastCall'.entry

\* C27: the store is chronological and free of overlaps.  While the clock
\* never goes back, the lines of every daily file stand in the order of
\* their commits, the end_time of a line is not later than the start_time
\* of the line after it, and a write adds one line at the end of a file and
\* changes or moves no line already there.
C27_ChronologicalStore ==
    /\ [](\A d \in Days : Chronological(store[d]))
    /\ [][AppendsAtEnd]_vars

\* C27 witness: a daily file with two lines, the second begun after the
\* first had ended
C27_Witness ==
    \E d \in Days :
       /\ Len(store[d]) >= 2
       /\ FromIso(store[d][1].end_time) < FromIso(store[d][2].start_time)

(* ------------------------------- C28 ----------------------------------- *)
\* the step by which process_single_capture returns after a capture that
\* succeeded
CaptureReturns == pc = "fold" /\ pc' = "commit"

\* C28: the temporary screenshot is cleaned up.  In every tick whose capture
\* succeeded the screenshot file is gone when process_single_capture
\* returns, both when the fold completed and when the inspection or the
\* extraction raised (a file whose removal itself fails is the one that
\* stays); hence between ticks and at STOPPED no screenshot file of the
\* runner is left.
C28_ScreenshotCleanup ==
    /\ [][CaptureReturns =>
             /\ screenshot
             /\ outcome' \in {"folded", "fold_raised"}
             /\ screenshot' = tmp_locked]_vars
    /\ []((pc # "fold" /\ ~tmp_locked) => ~screenshot)

\* C28 witness: the inspection or the extraction raised after a capture that
\* succeeded, and the file is gone when the tick goes on
C28_Witness ==
    /\ pc = "commit"
    /\ captured
    /\ outcome = "fold_raised"
    /\ ~tmp_locked
    /\ ~screenshot
====
